---- MODULE Spec2Model ----
(***************************************************************************)
(* Book Review API (src/app_start.py): a FastAPI application over two      *)
(* SQLAlchemy tables, books and reviews, with calls to an Ollama model.    *)
(*                                                                         *)
(* The relational store is PostgreSQL, the store startup_event names       *)
(* (lines 90-96).  What the model takes from it:                           *)
(*   - a query against a table that create_all has not yet created raises  *)
(*     (the only create_all of the program is in add_book, line 109);      *)
(*   - the autoincrement keys come from a sequence and are never reused;   *)
(*   - an Integer column rejects a value that is not an integer or NULL;   *)
(*   - the foreign key reviews.book_id -> books.id (line 82) has no        *)
(*     ON DELETE rule, so deleting a referenced book raises.               *)
(* An exception that is not an HTTPException is answered with status 500.  *)
(*                                                                         *)
(* A request is served in three steps: FastAPI resolves Depends(get_db)    *)
(* (Dispatch), runs the handler (one action per handler, the whole body),  *)
(* and resumes the get_db generator so that its finally clause runs        *)
(* (Finish).  The handlers are coroutines without an await, so a handler   *)
(* body runs without interleaving.                                         *)
(***************************************************************************)
EXTENDS Integers, Sequences, FiniteSets, TLC

\* Largest value the model lets books_id_seq / reviews_id_seq hand out.
MaxBookId == 2
MaxReviewId == 2

VARIABLES
    phase,          \* position of the process: "starting", "ready", "failed"
    dbProbe,        \* outcome of the SELECT 1 probe: "none", "ok", "fail"
    llmProbe,       \* outcome of the model.invoke probe: "none", "ok", "fail"
    tablesCreated,  \* whether Base.metadata.create_all has run against the store
    books,          \* rows of table books
    reviews,        \* rows of table reviews
    bookSeq,        \* last value handed out by books_id_seq
    reviewSeq,      \* last value handed out by reviews_id_seq
    openSessions,   \* number of sessions made by SessionLocal() and not yet closed
    req,            \* the request being served
    resp,           \* the handler's response; once sent (op "sent"), its status alone
    created,        \* bodies add_book returned, each until an update or delete of its id is issued
    deleted         \* ids for which delete_book has succeeded

vars == <<phase, dbProbe, llmProbe, tablesCreated, books, reviews, bookSeq,
          reviewSeq, openSessions, req, resp, created, deleted>>

----------------------------------------------------------------------------
(* Values.  An optional field is a pair <<tag, value>>: "absent" (not in   *)
(* the JSON body), "null", "str" or "int".  The empty string that Book     *)
(* uses as the default of year_published is <<"str", 0>>: its second       *)
(* component is not read.                                                  *)

AbsentText == <<"absent", "">>
NullText == <<"null", "">>
Str(s) == <<"str", s>>
AbsentInt == <<"absent", 0>>
NullInt == <<"null", 0>>
EmptyStrAsInt == <<"str", 0>>
IntVal(n) == <<"int", n>>

\* JSON bodies of POST /books and PUT /books/{id} that validate against Book:
\* title and author given, the optional fields given, null or left out.
BookJson ==
    { [title |-> "Dune", author |-> "Herbert", genre |-> AbsentText,
       year_published |-> AbsentInt, summary |-> AbsentText],
      [title |-> "Dune", author |-> "Herbert", genre |-> Str("scifi"),
       year_published |-> IntVal(1965), summary |-> Str("epic")],
      [title |-> "Emma", author |-> "Austen", genre |-> NullText,
       year_published |-> NullInt, summary |-> NullText] }

\* class Book(BaseModel): the defaults of the optional fields.  pydantic does
\* not validate a default, so year_published left out is the string "".
Book(json) ==
    [title |-> json.title,
     author |-> json.author,
     genre |-> IF json.genre = AbsentText THEN Str("") ELSE json.genre,
     year_published |-> IF json.year_published = AbsentInt
                        THEN EmptyStrAsInt ELSE json.year_published,
     summary |-> IF json.summary = AbsentText THEN Str("") ELSE json.summary]

\* class Review(BaseModel): user_id, review_text and rating are required;
\* book_id may be given and is not read by add_review.
Ratings == {2, 5}
ReviewJson ==
    [book_id : {NullInt, IntVal(9)}, user_id : {7}, review_text : {"good"},
     rating : Ratings]

\* Path parameters: the ids the sequence can hand out and one it never does.
BookIds == 1..(MaxBookId + 1)

\* Column(Integer): what the store accepts for year_published.
IntegerColumnAccepts(v) == v[1] \in {"null", "int"}

\* db.query(BookModel).filter(BookModel.id == id).first(): the row, as a set
\* that is empty when first() returns None.
QueryBook(id) == {b \in books : b.id = id}

\* db.query(ReviewModel).filter(ReviewModel.book_id == id).all(), as a set.
QueryReviews(id) == {r \in reviews : r.book_id = id}

\* nextval of a sequence.
NextVal(seq) == seq + 1

\* The row of books that db.refresh reads back after the INSERT.
BookRow(id, book) ==
    [id |-> id, title |-> book.title, author |-> book.author, genre |-> book.genre,
     year_published |-> book.year_published, summary |-> book.summary]

\* The mutable fields of a row, for comparison with a Book payload.
Fields(row) ==
    [title |-> row.title, author |-> row.author, genre |-> row.genre,
     year_published |-> row.year_published, summary |-> row.summary]

NoReq == [op |-> "none", st |-> "none"]

\* The operations whose signature has db: Session = Depends(get_db).
DbOps == {"add_book", "get_books", "get_book", "update_book", "delete_book",
          "add_review", "get_reviews", "get_summary", "get_recommendations"}
Ops == DbOps \cup {"generate_summary"}

NoRating == <<0, 1>>

Response(op, id, status, sent, bookRows, reviewRows, rating) ==
    [op |-> op, id |-> id, status |-> status, sent |-> sent, books |-> bookRows,
     reviews |-> reviewRows, rating |-> rating]

NoResponse == Response("none", 0, 0, {}, {}, {}, NoRating)

Init ==
    /\ phase = "starting"
    /\ dbProbe = "none"
    /\ llmProbe = "none"
    /\ tablesCreated = FALSE
    /\ books = {}
    /\ reviews = {}
    /\ bookSeq = 0
    /\ reviewSeq = 0
    /\ openSessions = 0
    /\ req = NoReq
    /\ resp = NoResponse
    /\ created = {}
    /\ deleted = {}

----------------------------------------------------------------------------
(* Startup.                                                                *)

\* A startup check whose second except clause does not raise.
StartupPhase_LlmFailureIgnored(dbOk, llmOk) == IF dbOk THEN "ready" ELSE "failed"

\* startup_event: the position it leaves the process in, from the outcomes of
\* its two probes.  Either except clause raises, and the server exits.
StartupPhase(dbOk, llmOk) == IF dbOk /\ llmOk THEN "ready" ELSE "failed"

\* @app.on_event("startup"): SELECT 1 on the engine, then model.invoke; the
\* second probe is not reached when the first raises.
startup_event ==
    /\ phase = "starting"
    /\ \E dbOk \in BOOLEAN, llmOk \in BOOLEAN :
          /\ dbProbe' = IF dbOk THEN "ok" ELSE "fail"
          /\ llmProbe' = IF ~dbOk THEN "none" ELSE IF llmOk THEN "ok" ELSE "fail"
          /\ phase' = StartupPhase(dbOk, llmOk)
    /\ UNCHANGED <<tablesCreated, books, reviews, bookSeq, reviewSeq,
                   openSessions, req, resp, created, deleted>>

----------------------------------------------------------------------------
(* The session dependency.                                                 *)

\* get_db up to its yield: db = SessionLocal().
get_db_enter(n) == n + 1

\* A get_db without the finally clause: the close is reached only when the
\* handler returned.
get_db_exit_NoFinally(n, status) == IF status = 200 THEN n - 1 ELSE n

\* get_db after its yield: the finally clause closes the session whatever the
\* handler did (status is the handler's outcome).
get_db_exit(n, status) == n - 1

\* FastAPI takes a request when the application is ready and resolves the
\* handler's dependencies: one get_db per handler that declares it.
Dispatch ==
    /\ phase = "ready"
    /\ req = NoReq
    /\ resp' = NoResponse
    /\ \E op \in Ops :
          /\ req' = [op |-> op, st |-> "running"]
          /\ openSessions' = IF op \in DbOps THEN get_db_enter(openSessions)
                             ELSE openSessions
    /\ UNCHANGED <<phase, dbProbe, llmProbe, tablesCreated, books, reviews,
                   bookSeq, reviewSeq, created, deleted>>

\* The response is sent and the dependency's generator is resumed.
Finish ==
    /\ req.st = "handled"
    /\ openSessions' = IF req.op \in DbOps THEN get_db_exit(openSessions, resp.status)
                       ELSE openSessions
    /\ req' = NoReq
    /\ resp' = Response("sent", 0, resp.status, {}, {}, {}, NoRating)
    /\ UNCHANGED <<phase, dbProbe, llmProbe, tablesCreated, books, reviews,
                   bookSeq, reviewSeq, created, deleted>>

Running(op) == req.op = op /\ req.st = "running"

Handled == req' = [req EXCEPT !.st = "handled"]

\* What a handler leaves alone when it writes nothing to the store.
StoreUnchanged == UNCHANGED <<tablesCreated, books, reviews, bookSeq, reviewSeq>>

\* A handler never changes these.
HandlerFrame == UNCHANGED <<phase, dbProbe, llmProbe, openSessions>>

----------------------------------------------------------------------------
(* Book operations.                                                        *)

\* POST /books.  create_all runs first, outside the session's transaction.
\* The INSERT raises when year_published is not an integer or NULL; the
\* sequence value is taken only by an INSERT that is executed.
add_book ==
    /\ Running("add_book")
    /\ \E json \in BookJson :
          LET book == Book(json)
              id == NextVal(bookSeq)
              db_book == BookRow(id, book)
          IN  /\ tablesCreated' = TRUE
              /\ \/ /\ IntegerColumnAccepts(book.year_published)
                    /\ bookSeq < MaxBookId
                    /\ books' = books \cup {db_book}
                    /\ bookSeq' = id
                    /\ resp' = Response("add_book", id, 200, {book}, {db_book}, {}, NoRating)
                    /\ created' = created \cup {db_book}
                 \/ /\ ~IntegerColumnAccepts(book.year_published)
                    /\ resp' = Response("add_book", 0, 500, {book}, {}, {}, NoRating)
                    /\ UNCHANGED <<books, bookSeq, created>>
    /\ Handled
    /\ HandlerFrame
    /\ UNCHANGED <<reviews, reviewSeq, deleted>>

\* GET /books.
get_books ==
    /\ Running("get_books")
    /\ resp' = IF ~tablesCreated
               THEN Response("get_books", 0, 500, {}, {}, {}, NoRating)
               ELSE Response("get_books", 0, 200, {}, books, {}, NoRating)
    /\ Handled
    /\ HandlerFrame
    /\ StoreUnchanged
    /\ UNCHANGED <<created, deleted>>

\* GET /books/{id}.
get_book ==
    /\ Running("get_book")
    /\ \E id \in BookIds :
          LET book == QueryBook(id)
          IN  resp' = IF ~tablesCreated
                      THEN Response("get_book", id, 500, {}, {}, {}, NoRating)
                      ELSE IF book = {}
                      THEN Response("get_book", id, 404, {}, {}, {}, NoRating)
                      ELSE Response("get_book", id, 200, {}, book, {}, NoRating)
    /\ Handled
    /\ HandlerFrame
    /\ StoreUnchanged
    /\ UNCHANGED <<created, deleted>>

\* The row of update_book after its five assignments.
Overwrite(db_book, book) == BookRow(db_book.id, book)

\* PUT /books/{id}.  The UPDATE raises, and the session is rolled back on
\* close, when year_published is not an integer or NULL.
update_book ==
    /\ Running("update_book")
    /\ \E id \in BookIds, json \in BookJson :
          LET book == Book(json)
              found == QueryBook(id)
          IN  /\ created' = {b \in created : b.id # id}
              /\ IF ~tablesCreated
                 THEN /\ resp' = Response("update_book", id, 500, {book}, {}, {}, NoRating)
                      /\ UNCHANGED books
                 ELSE IF found = {}
                 THEN /\ resp' = Response("update_book", id, 404, {book}, {}, {}, NoRating)
                      /\ UNCHANGED books
                 ELSE IF ~IntegerColumnAccepts(book.year_published)
                 THEN /\ resp' = Response("update_book", id, 500, {book}, {}, {}, NoRating)
                      /\ UNCHANGED books
                 ELSE LET db_book == Overwrite(CHOOSE b \in found : TRUE, book)
                      IN  /\ books' = (books \ found) \cup {db_book}
                          /\ resp' = Response("update_book", id, 200, {book}, {db_book},
                                              {}, NoRating)
    /\ Handled
    /\ HandlerFrame
    /\ UNCHANGED <<tablesCreated, reviews, bookSeq, reviewSeq, deleted>>

\* ForeignKey('books.id') on reviews.book_id: every review's book is a row.
ForeignKeyHolds(bookRows, reviewRows) ==
    \A r \in reviewRows : \E b \in bookRows : b.id = r.book_id

\* DELETE /books/{id}.  The DELETE raises when a review references the row.
delete_book ==
    /\ Running("delete_book")
    /\ \E id \in BookIds :
          LET book == QueryBook(id)
          IN  /\ created' = {b \in created : b.id # id}
              /\ IF ~tablesCreated
                 THEN /\ resp' = Response("delete_book", id, 500, {}, {}, {}, NoRating)
                      /\ UNCHANGED <<books, deleted>>
                 ELSE IF book = {}
                 THEN /\ resp' = Response("delete_book", id, 404, {}, {}, {}, NoRating)
                      /\ UNCHANGED <<books, deleted>>
                 ELSE IF ~ForeignKeyHolds(books \ book, reviews)
                 THEN /\ resp' = Response("delete_book", id, 500, {}, {}, {}, NoRating)
                      /\ UNCHANGED <<books, deleted>>
                 ELSE /\ books' = books \ book
                      /\ deleted' = deleted \cup {id}
                      /\ resp' = Response("delete_book", id, 200, {}, {}, {}, NoRating)
    /\ Handled
    /\ HandlerFrame
    /\ UNCHANGED <<tablesCreated, reviews, bookSeq, reviewSeq>>

----------------------------------------------------------------------------
(* Review operations.                                                      *)

\* The row add_review inserts: book_id is the found book's id.
ReviewRow(id, book, review) ==
    [id |-> id, book_id |-> book.id, user_id |-> review.user_id,
     review_text |-> review.review_text, rating |-> review.rating]

\* POST /books/{id}/reviews.
add_review ==
    /\ Running("add_review")
    /\ \E id \in BookIds, review \in ReviewJson :
          LET book == QueryBook(id)
          IN  IF ~tablesCreated
              THEN /\ resp' = Response("add_review", id, 500, {}, {}, {}, NoRating)
                   /\ UNCHANGED <<reviews, reviewSeq>>
              ELSE IF book = {}
              THEN /\ resp' = Response("add_review", id, 404, {}, {}, {}, NoRating)
                   /\ UNCHANGED <<reviews, reviewSeq>>
              ELSE LET db_review == ReviewRow(NextVal(reviewSeq),
                                              CHOOSE b \in book : TRUE, review)
                   IN  /\ reviewSeq < MaxReviewId
                       /\ reviews' = reviews \cup {db_review}
                       /\ reviewSeq' = db_review.id
                       /\ resp' = Response("add_review", id, 200, {}, {}, {db_review},
                                           NoRating)
    /\ Handled
    /\ HandlerFrame
    /\ UNCHANGED <<tablesCreated, books, bookSeq, created, deleted>>

\* GET /books/{id}/reviews.
get_reviews ==
    /\ Running("get_reviews")
    /\ \E id \in BookIds :
          LET found == QueryReviews(id)
          IN  resp' = IF ~tablesCreated
                      THEN Response("get_reviews", id, 500, {}, {}, {}, NoRating)
                      ELSE IF found = {}
                      THEN Response("get_reviews", id, 404, {}, {}, {}, NoRating)
                      ELSE Response("get_reviews", id, 200, {}, {}, found, NoRating)
    /\ Handled
    /\ HandlerFrame
    /\ StoreUnchanged
    /\ UNCHANGED <<created, deleted>>

----------------------------------------------------------------------------
(* Generation operations.                                                  *)

\* The lists .all() can return for a set of rows: a query without ORDER BY
\* returns its rows in an order the store chooses.
Orderings(rows) ==
    {s \in [1..Cardinality(rows) -> rows] : \A r \in rows : \E i \in DOMAIN s : s[i] = r}

RECURSIVE SumRatings(_)
\* sum(review.rating for review in reviews), left to right.
SumRatings(rs) == IF rs = <<>> THEN 0 ELSE Head(rs).rating + SumRatings(Tail(rs))

RECURSIVE GCD(_, _)
GCD(a, b) == IF b = 0 THEN a ELSE GCD(b, a % b)

Abs(n) == IF n < 0 THEN -n ELSE n

\* The quotient n / d of Python's true division, d > 0, as the fraction in
\* lowest terms <<numerator, denominator>>: the float it yields is a function
\* of that fraction.
TrueDiv(n, d) == LET g == GCD(Abs(n), d) IN <<n \div g, d \div g>>

\* An average by floor division (// for /).
AverageRating_FloorDiv(rs) == <<SumRatings(rs) \div Len(rs), 1>>

\* average_rating = sum(review.rating for review in reviews) / len(reviews)
AverageRating(rs) == TrueDiv(SumRatings(rs), Len(rs))

\* A get_summary that stores the generated text in the book's summary.
get_summary_Persisting ==
    /\ Running("get_summary")
    /\ \E id \in BookIds :
          LET book == QueryBook(id)
              found == QueryReviews(id)
          IN  IF ~tablesCreated
              THEN /\ resp' = Response("get_summary", id, 500, {}, {}, {}, NoRating)
                   /\ UNCHANGED books
              ELSE IF book = {} \/ found = {}
              THEN /\ resp' = Response("get_summary", id, 404, {}, {}, {}, NoRating)
                   /\ UNCHANGED books
              ELSE \E rs \in Orderings(found), invoked \in BOOLEAN :
                      IF invoked
                      THEN /\ resp' = Response("get_summary", id, 200, {}, {}, {},
                                               AverageRating(rs))
                           /\ books' = (books \ book) \cup
                                  {[b EXCEPT !.summary = Str("generated")] : b \in book}
                      ELSE /\ resp' = Response("get_summary", id, 500, {}, {}, {}, NoRating)
                           /\ UNCHANGED books
    /\ Handled
    /\ HandlerFrame
    /\ UNCHANGED <<tablesCreated, reviews, bookSeq, reviewSeq, created, deleted>>

\* GET /books/{id}/summary.  model.invoke either returns text or raises.
get_summary ==
    /\ Running("get_summary")
    /\ \E id \in BookIds :
          LET book == QueryBook(id)
              found == QueryReviews(id)
          IN  IF ~tablesCreated
              THEN /\ resp' = Response("get_summary", id, 500, {}, {}, {}, NoRating)
                   /\ UNCHANGED books
              ELSE IF book = {} \/ found = {}
              THEN /\ resp' = Response("get_summary", id, 404, {}, {}, {}, NoRating)
                   /\ UNCHANGED books
              ELSE \E rs \in Orderings(found), invoked \in BOOLEAN :
                      IF invoked
                      THEN /\ resp' = Response("get_summary", id, 200, {}, {}, {},
                                               AverageRating(rs))
                           /\ UNCHANGED books
                      ELSE /\ resp' = Response("get_summary", id, 500, {}, {}, {}, NoRating)
                           /\ UNCHANGED books
    /\ Handled
    /\ HandlerFrame
    /\ UNCHANGED <<tablesCreated, reviews, bookSeq, reviewSeq, created, deleted>>

\* BookModel.title.in_(response) with response a str: SQLAlchemy either
\* refuses the string or takes its characters as the list of titles.
TitleCanMatch(title) == Len(title) = 1

\* GET /recommendations.
get_recommendations ==
    /\ Running("get_recommendations")
    /\ IF ~tablesCreated
       THEN resp' = Response("get_recommendations", 0, 500, {}, {}, {}, NoRating)
       ELSE IF books = {}
       THEN resp' = Response("get_recommendations", 0, 404, {}, {}, {}, NoRating)
       ELSE \E invoked \in BOOLEAN, accepted \in BOOLEAN :
               IF invoked /\ accepted
               THEN \E recommended_books \in SUBSET {b \in books : TitleCanMatch(b.title)} :
                       resp' = Response("get_recommendations", 0, 200, {},
                                        recommended_books, {}, NoRating)
               ELSE resp' = Response("get_recommendations", 0, 500, {}, {}, {}, NoRating)
    /\ Handled
    /\ HandlerFrame
    /\ StoreUnchanged
    /\ UNCHANGED <<created, deleted>>

\* POST /generate-summary.  No session.  model.invoke returns a str or
\* raises, and response.choices raises on a str: the handler never returns.
generate_summary ==
    /\ Running("generate_summary")
    /\ resp' = Response("generate_summary", 0, 500, {}, {}, {}, NoRating)
    /\ Handled
    /\ HandlerFrame
    /\ StoreUnchanged
    /\ UNCHANGED <<created, deleted>>

----------------------------------------------------------------------------

Next ==
    \/ startup_event
    \/ Dispatch
    \/ add_book
    \/ get_books
    \/ get_book
    \/ update_book
    \/ delete_book
    \/ add_review
    \/ get_reviews
    \/ get_summary
    \/ get_recommendations
    \/ generate_summary
    \/ Finish

Spec == Init /\ [][Next]_vars

----------------------------------------------------------------------------
(* Properties.                                                             *)

\* The step in which the handler of op runs.
HandlerStep(op) == Running(op) /\ req'.st = "handled"

StoreSame == books' = books /\ reviews' = reviews

RECURSIVE RatingSum(_)
\* The sum of the ratings of a set of review rows.
RatingSum(rows) ==
    IF rows = {} THEN 0
    ELSE LET r == CHOOSE x \in rows : TRUE IN r.rating + RatingSum(rows \ {r})

\* C1: add_book stores every accepted payload (optional fields given or left
\* at their defaults) and returns the stored record with a generated id; a
\* get_book of that id before any update or delete of it returns the same body.
C1_CreateThenGet ==
    [][ /\ HandlerStep("add_book") =>
              /\ resp'.status = 200
              /\ Cardinality(resp'.books) = 1
              /\ resp'.books \subseteq books'
              /\ \A b \in resp'.books :
                    /\ b.id \notin {x.id : x \in books}
                    /\ {Fields(b)} = resp'.sent
        /\ HandlerStep("get_book") =>
              \A c \in created :
                 c.id = resp'.id => resp'.status = 200 /\ resp'.books = {c}
      ]_vars

\* C1, for the payloads whose year_published is an integer or null.
CreateThenGet_YearGiven ==
    [][ /\ HandlerStep("add_book")
              /\ (\A sent \in resp'.sent : IntegerColumnAccepts(sent.year_published)) =>
              /\ resp'.status = 200
              /\ Cardinality(resp'.books) = 1
              /\ resp'.books \subseteq books'
              /\ \A b \in resp'.books :
                    /\ b.id \notin {x.id : x \in books}
                    /\ {Fields(b)} = resp'.sent
        /\ HandlerStep("get_book") =>
              \A c \in created :
                 c.id = resp'.id => resp'.status = 200 /\ resp'.books = {c}
      ]_vars

\* C2: update_book on an existing id overwrites the five mutable fields with
\* the payload's values, defaults included, keeps the id, and a get_book then
\* returns the payload; on an absent id it returns 404 and changes nothing.
C2_UpdateOverwrites ==
    [][ HandlerStep("update_book") =>
           IF QueryBook(resp'.id) # {}
           THEN /\ resp'.status = 200
                /\ {Fields(b) : b \in {x \in books' : x.id = resp'.id}} = resp'.sent
                /\ {x \in books' : x.id # resp'.id} = {x \in books : x.id # resp'.id}
                /\ reviews' = reviews
           ELSE resp'.status = 404 /\ StoreSame
      ]_vars

\* C2, with the tables in place and for the payloads whose year_published is
\* an integer or null.
UpdateOverwrites_YearGiven ==
    [][ HandlerStep("update_book") /\ tablesCreated
              /\ (\A sent \in resp'.sent : IntegerColumnAccepts(sent.year_published)) =>
           IF QueryBook(resp'.id) # {}
           THEN /\ resp'.status = 200
                /\ {Fields(b) : b \in {x \in books' : x.id = resp'.id}} = resp'.sent
                /\ {x \in books' : x.id # resp'.id} = {x \in books : x.id # resp'.id}
                /\ reviews' = reviews
           ELSE resp'.status = 404 /\ StoreSame
      ]_vars

\* C3: once delete_book has succeeded for an id, every later get_book,
\* update_book and delete_book of that id returns 404; delete_book of an id
\* that is not stored returns 404 and removes nothing.
C3_DeletedStaysGone ==
    [][ /\ \A op \in {"get_book", "update_book", "delete_book"} :
              HandlerStep(op) /\ resp'.id \in deleted => resp'.status = 404
        /\ HandlerStep("delete_book") /\ QueryBook(resp'.id) = {} =>
              resp'.status = 404 /\ StoreSame
      ]_vars

\* C3, with the tables in place: the same statement for the requests that
\* arrive after the first add_book.
DeletedStaysGone_TablesCreated ==
    [][ tablesCreated =>
          /\ \A op \in {"get_book", "update_book", "delete_book"} :
                HandlerStep(op) /\ resp'.id \in deleted => resp'.status = 404
          /\ HandlerStep("delete_book") /\ QueryBook(resp'.id) = {} =>
                resp'.status = 404 /\ StoreSame
      ]_vars

\* C4: add_review for an id with no stored book returns 404 and leaves the
\* stored reviews and books unchanged; every review that is stored references
\* a book that existed when the review was created.
C4_ReviewNeedsBook ==
    [][ /\ HandlerStep("add_review") /\ QueryBook(resp'.id) = {} =>
              resp'.status = 404 /\ StoreSame
        /\ \A r \in reviews' \ reviews : \E b \in books : b.id = r.book_id
      ]_vars

\* C4, with the tables in place.
ReviewNeedsBook_TablesCreated ==
    [][ tablesCreated =>
          /\ HandlerStep("add_review") /\ QueryBook(resp'.id) = {} =>
                resp'.status = 404 /\ StoreSame
          /\ \A r \in reviews' \ reviews : \E b \in books : b.id = r.book_id
      ]_vars

\* C5: when get_summary returns for a book with reviews, its rating is the
\* sum of the ratings of the stored reviews of that book divided by their
\* number, whatever the order in which the reviews are read.
C5_MeanRating ==
    (req.st = "handled" /\ resp.op = "get_summary" /\ resp.status = 200) =>
        LET rows == QueryReviews(resp.id)
        IN  /\ rows # {}
            /\ resp.rating[2] > 0
            /\ resp.rating[1] * Cardinality(rows) = RatingSum(rows) * resp.rating[2]

\* A summary of two reviews whose mean is not an integer.
C5_Witness ==
    /\ req.st = "handled" /\ resp.op = "get_summary" /\ resp.status = 200
    /\ Cardinality(QueryReviews(resp.id)) = 2
    /\ resp.rating = <<7, 2>>

\* C6: get_reviews returns 404 whenever no stored review has the id as its
\* book_id, whether or not the book exists, and otherwise returns exactly the
\* stored reviews with that book_id.
C6_ReviewsOrNotFound ==
    [][ HandlerStep("get_reviews") =>
           IF QueryReviews(resp'.id) = {}
           THEN resp'.status = 404
           ELSE resp'.status = 200 /\ resp'.reviews = QueryReviews(resp'.id)
      ]_vars

\* C6, with the tables in place.
ReviewsOrNotFound_TablesCreated ==
    [][ tablesCreated /\ HandlerStep("get_reviews") =>
           IF QueryReviews(resp'.id) = {}
           THEN resp'.status = 404
           ELSE resp'.status = 200 /\ resp'.reviews = QueryReviews(resp'.id)
      ]_vars

\* C7: delete_book of an existing book that has reviews removes the book and
\* leaves every stored review unchanged, those of the deleted book included.
C7_DeleteKeepsReviews ==
    [][ HandlerStep("delete_book") /\ QueryBook(resp'.id) # {}
            /\ QueryReviews(resp'.id) # {} =>
           /\ resp'.status = 200
           /\ books' = books \ QueryBook(resp'.id)
           /\ reviews' = reviews
      ]_vars

\* C7, the part the store allows: delete_book never changes the reviews, and
\* it removes a book that no review references.
DeleteNeverCascades ==
    [][ HandlerStep("delete_book") =>
           /\ reviews' = reviews
           /\ tablesCreated /\ QueryBook(resp'.id) # {} /\ QueryReviews(resp'.id) = {} =>
                 resp'.status = 200 /\ books' = books \ QueryBook(resp'.id)
      ]_vars

\* C8: a request whose handler depends on get_db holds exactly one open
\* session while it is served, and none is open once the request is finished,
\* whether the handler returned, raised 404 or failed with an exception.
C8_SessionScoped ==
    /\ openSessions = IF req.op \in DbOps THEN 1 ELSE 0
    /\ req = NoReq => openSessions = 0

\* A request that ended in 404 has been finished.
C8_Witness ==
    req = NoReq /\ resp.op = "sent" /\ resp.status = 404 /\ openSessions = 0

\* C9: the process is ready only when both startup probes were made and
\* succeeded; when a probe fails the process is failed, and outside the ready
\* position no request is taken, no handler runs and the store is untouched.
C9_ReadyOnlyAfterProbes ==
    /\ phase = "ready" => dbProbe = "ok" /\ llmProbe = "ok"
    /\ (dbProbe = "fail" \/ llmProbe = "fail") => phase = "failed"
    /\ phase # "ready" =>
          /\ req = NoReq /\ resp = NoResponse /\ openSessions = 0
          /\ ~tablesCreated /\ books = {} /\ reviews = {}

\* A handler has run in a process that passed both probes.
C9_Witness ==
    phase = "ready" /\ dbProbe = "ok" /\ llmProbe = "ok" /\ req.st = "handled"

ReadOps == {"get_books", "get_book", "get_reviews", "get_summary",
            "get_recommendations", "generate_summary"}

\* C10: the read and generation handlers leave the stored books and reviews
\* as they were, whatever they answer; get_summary stores neither its text
\* nor its rating.
C10_ReadsLeaveStore ==
    [][ \A op \in ReadOps :
           HandlerStep(op) =>
              /\ StoreSame
              /\ UNCHANGED <<tablesCreated, bookSeq, reviewSeq>>
      ]_vars

\* get_summary has answered 200 for a book, and the book is stored as before.
C10_Witness ==
    /\ req.st = "handled" /\ resp.op = "get_summary" /\ resp.status = 200
    /\ \E b \in books : b.id = resp.id /\ b.summary # Str("generated")

====
